---- MODULE Spec2Model ----
(***************************************************************************)
(* State-machine model of the sequential thinking engine:                  *)
(* SequentialThinkingEngine (engines.py), SessionManager                   *)
(* (session_manager.py), the dataclasses of models.py and the pattern      *)
(* detectors of plugins.py.                                                *)
(*                                                                         *)
(* Strings are sequences of one-character strings, so that substring       *)
(* tests, lower() and strip() are computed rather than assumed.            *)
(* Floats are integers in thousandths (0.8 is 800).                        *)
(* Ids are positive integers; None is 0, which is falsy as in Python.       *)
(* An id is the first eight hex digits of a uuid4. Spec, OverlapSpec,      *)
(* ContentSpec and ActorsSpec take every draw to yield an id not seen      *)
(* before, the next of a counter per table; UuidSpec lets a draw yield any *)
(* id of the id space, one in use included.                                *)
(* pending holds the frames of add_thought calls that have computed their  *)
(* thought number and have not yet stored their thought.                   *)
(***************************************************************************)
EXTENDS Integers, Sequences, FiniteSets, TLC

VARIABLES thoughts, sessions, current_session, patterns, issued, clock, result,
          pending

vars == <<thoughts, sessions, current_session, patterns, issued, clock, result,
          pending>>

----------------------------------------------------------------------------
(* Bounds of the model *)

\* ids the thought table may hand out
MaxThoughtIds == 3
\* ids handed out to branches, over all sessions
MaxBranchIds == 2
\* ids handed out to sessions
MaxSessionIds == 2
\* longest main thread a merge may build
MaxThreadLen == 4
\* add_thought calls that may be under way at once
MaxPending == 2

\* the ceiling SessionConfig.max_thoughts gives every session (1000 in the
\* source)
max_thoughts == 2
\* the ceiling SessionConfig.max_branches gives every session (50 in the
\* source)
max_branches == 1
\* the ceiling on thoughts of the session whose quality is assessed
MaxQualityLen == 7
\* longest list of packages handed to _rank_packages
MaxPackages == 3

----------------------------------------------------------------------------
(* Program constants *)

\* the threshold of _update_patterns_async, 0.6
PatternThreshold == 600

None == 0
\* an id no table ever issues
UnknownId == MaxThoughtIds + MaxBranchIds + MaxSessionIds + 1

----------------------------------------------------------------------------
(* Strings *)

UpperCase == <<"A","B","C","D","E","F","G","H","I","J","K","L","M",
               "N","O","P","Q","R","S","T","U","V","W","X","Y","Z">>
LowerCase == <<"a","b","c","d","e","f","g","h","i","j","k","l","m",
               "n","o","p","q","r","s","t","u","v","w","x","y","z">>

lower_char(c) ==
    IF \E k \in 1..26 : UpperCase[k] = c
    THEN LowerCase[CHOOSE k \in 1..26 : UpperCase[k] = c]
    ELSE c

\* str.lower()
lower(s) == [i \in 1..Len(s) |-> lower_char(s[i])]

IsSpace(c) == c \in {" ", "\t", "\n", "\r"}

\* str.strip()
strip(s) ==
    IF \A i \in 1..Len(s) : IsSpace(s[i])
    THEN <<>>
    ELSE LET first == CHOOSE i \in 1..Len(s) :
                        /\ ~IsSpace(s[i])
                        /\ \A j \in 1..(i-1) : IsSpace(s[j])
             last  == CHOOSE i \in 1..Len(s) :
                        /\ ~IsSpace(s[i])
                        /\ \A j \in (i+1)..Len(s) : IsSpace(s[j])
         IN SubSeq(s, first, last)

\* Python's "sub in s"
Contains(sub, s) ==
    \E i \in 0..(Len(s) - Len(sub)) : SubSeq(s, i + 1, i + Len(sub)) = sub

\* any(word in s for word in words)
ContainsAny(words, s) == \E k \in 1..Len(words) : Contains(words[k], s)

\* "not text.strip()": the text is empty or only whitespace
IsBlank(s) == strip(s) = <<>>

----------------------------------------------------------------------------
(* Input texts *)

TextValid == <<"t","h","e"," ","a","p","p","r","o","a","c","h"," ","i","s"," ","v","a","l","i","d">>
TextNotCorrect == <<"H","o","w","e","v","e","r",","," ","t","h","i","s"," ","i","s"," ","n","o","t"," ","c","o","r","r","e","c","t">>
TextBlank == <<" "," "," ">>
TextEmpty == <<>>
TextProblem == <<"X">>

\* contents offered to add_thought and revise_thought
Contents == {TextValid, TextBlank, TextEmpty}
\* problem statements and success criteria offered to start_session
Statements == {TextProblem, TextBlank, TextEmpty}
\* confidences offered to add_thought and revise_thought: 0.9, 1.5 and -0.1
Confidences == {900, 1500, -100}

\* the callers of the engine and the text each of them puts on everything it
\* passes in: problem statement, thought content, branch name
Actors == {1, 2}
ActorText(a) == IF a = 1 THEN <<"a","1">> ELSE <<"a","2">>

\* contents that differ in what the analyzers find in them: TextValid holds a
\* positive indicator, TextNotCorrect a negative and a positive indicator and
\* the keyword "however" in capitals, TextWrong a negative indicator in
\* capitals
TextWrong == <<"W","R","O","N","G">>
RichContents == {TextValid, TextNotCorrect, TextWrong}

\* f"MANDATORY: Explore existing packages for: {problem}"
TextMandatory ==
    <<"M","A","N","D","A","T","O","R","Y",":"," ","E","x","p","l","o","r","e"," ",
      "e","x","i","s","t","i","n","g"," ","p","a","c","k","a","g","e","s"," ",
      "f","o","r",":"," ">>
MandatoryContent(problem) == TextMandatory \o problem

\* contents that differ in what the pattern detectors find in them:
\* TextDetailed is longer than 50 characters and holds "however", TextImport
\* holds two keywords of package_needed, TextThree three and TextFour four,
\* next to "however" and more than 50 characters
TextDetailed ==
    <<"H","o","w","e","v","e","r",","," ","a"," ","c","l","o","s","e","r",
      " ","l","o","o","k"," ","a","t"," ","e","v","e","r","y"," ","c","a",
      "s","e"," ","s","h","o","w","s"," ","t","h","a","t"," ","t","h","i",
      "s"," ","i","s"," ","n","o","t"," ","c","o","r","r","e","c","t">>
TextImport ==
    <<"N","e","e","d"," ","t","o"," ","i","m","p","o","r","t"," ","r","e",
      "q","u","e","s","t","s"," ","l","i","b","r","a","r","y"," ","f","o",
      "r"," ","H","T","T","P"," ","c","a","l","l","s">>
TextFour ==
    <<"H","o","w","e","v","e","r",","," ","w","e"," ","i","n","s","t","a",
      "l","l"," ","a","n","d"," ","i","m","p","o","r","t"," ","t","h","i",
      "s"," ","d","e","p","e","n","d","e","n","c","y"," ","f","r","o","m",
      " ","t","h","e"," ","l","i","b","r","a","r","y">>
TextThree ==
    <<"i","n","s","t","a","l","l"," ","t","h","e"," ","d","e","p","e","n",
      "d","e","n","c","y"," ","f","r","o","m"," ","t","h","e"," ","l","i",
      "b","r","a","r","y">>
PatternContents == {TextValid, TextDetailed, TextImport, TextThree, TextFour}

\* every content any specification offers
OfferedContents ==
    Contents \cup RichContents \cup {ActorText(a) : a \in Actors}
    \cup {MandatoryContent(TextProblem)} \cup PatternContents

----------------------------------------------------------------------------
(* plugins.py: the pattern detectors *)

\* PatternResult(pattern, confidence, fallback_used, strategy)
PatternResult(pattern, confidence, fallback_used, strategy) ==
    [pattern |-> pattern, confidence |-> confidence,
     fallback_used |-> fallback_used, strategy |-> strategy]

\* PatternResult.__post_init__ raises unless 0.0 <= confidence <= 1.0
PatternResultRaises(confidence) == ~(0 <= confidence /\ confidence <= 1000)

\* KeywordPatternDetector.patterns, in dict order
KeywordPatterns == <<
    [name |-> "first principles", keywords |->
        <<<<"f","i","r","s","t"," ","p","r","i","n","c","i","p","l","e","s">>,
        <<"b","r","e","a","k","i","n","g"," ","d","o","w","n">>,
        <<"f","u","n","d","a","m","e","n","t","a","l">>>>],
    [name |-> "assumption", keywords |->
        <<<<"a","s","s","u","m","p","t","i","o","n">>,
        <<"a","s","s","u","m","e">>,
        <<"g","i","v","e","n"," ","t","h","a","t">>>>],
    [name |-> "contradiction", keywords |->
        <<<<"c","o","n","t","r","a","d","i","c","t","i","o","n">>,
        <<"h","o","w","e","v","e","r">>,
        <<"b","u","t">>,
        <<"a","l","t","e","r","n","a","t","i","v","e","l","y">>>>],
    [name |-> "conclusion", keywords |->
        <<<<"t","h","e","r","e","f","o","r","e">>,
        <<"t","h","u","s">>,
        <<"i","t"," ","f","o","l","l","o","w","s">>,
        <<"c","o","n","s","e","q","u","e","n","t","l","y">>>>]>>

\* CodingPatternDetector.coding_patterns, in dict order
CodingPatterns == <<
    [name |-> "package_needed", keywords |->
        <<<<"i","m","p","o","r","t">>,
        <<"i","n","s","t","a","l","l">>,
        <<"d","e","p","e","n","d","e","n","c","y">>,
        <<"l","i","b","r","a","r","y">>,
        <<"f","r","a","m","e","w","o","r","k">>>>],
    [name |-> "api_exploration", keywords |->
        <<<<"a","p","i">>,
        <<"m","e","t","h","o","d">>,
        <<"f","u","n","c","t","i","o","n">>,
        <<"e","n","d","p","o","i","n","t">>,
        <<"i","n","t","e","r","f","a","c","e">>>>],
    [name |-> "code_reinvention", keywords |->
        <<<<"i","m","p","l","e","m","e","n","t">>,
        <<"w","r","i","t","e">>,
        <<"c","r","e","a","t","e">>,
        <<"b","u","i","l","d">>,
        <<"d","e","v","e","l","o","p">>>>],
    [name |-> "integration_planning", keywords |->
        <<<<"i","n","t","e","g","r","a","t","e">>,
        <<"c","o","n","n","e","c","t">>,
        <<"c","o","m","b","i","n","e">>,
        <<"m","e","r","g","e">>,
        <<"l","i","n","k">>>>],
    [name |-> "architecture_decision", keywords |->
        <<<<"c","h","o","o","s","e">>,
        <<"s","e","l","e","c","t">>,
        <<"d","e","c","i","d","e">>,
        <<"a","r","c","h","i","t","e","c","t","u","r","e">>,
        <<"d","e","s","i","g","n">>>>]>>

\* what a detector hands back: its result list, or the fact that it raised
Returned(results) == [raised |-> FALSE, results |-> results]
Raised == [raised |-> TRUE, results |-> <<>>]

\* KeywordPatternDetector.detect_patterns
KeywordPatternDetector(content) ==
    LET content_lower == lower(content)
        hit == SelectSeq(KeywordPatterns,
                         LAMBDA p : ContainsAny(p.keywords, content_lower))
    IN Returned([i \in 1..Len(hit) |->
                    PatternResult(hit[i].name, 800, FALSE, "keyword")])

\* FallbackPatternDetector.detect_patterns
FallbackPatternDetector(content) ==
    IF Len(content) > 50
    THEN Returned(<<PatternResult("detailed_analysis", 500, TRUE, "fallback")>>)
    ELSE Returned(<<>>)

\* the keywords of a pattern found in the content
matched_keywords(keywords, content_lower) ==
    {k \in 1..Len(keywords) : Contains(keywords[k], content_lower)}

\* the float 0.7 + (0.1 * n) in thousandths, rounded down: in IEEE doubles
\* 0.7 + 0.1 is 0.7999999999999999 and 0.7 + 0.2 is 0.8999999999999999,
\* 0.7 + 0.1 * 3 is 1.0 and 0.7 + 0.1 * 4 is 1.1
coding_confidence(n) ==
    CASE n = 1 -> 799
      [] n = 2 -> 899
      [] OTHER -> 700 + 100 * n

\* CodingPatternDetector.detect_patterns
CodingPatternDetector(content) ==
    LET content_lower == lower(content)
        hit == SelectSeq(CodingPatterns,
                         LAMBDA p : matched_keywords(p.keywords, content_lower) # {})
        conf(p) == coding_confidence(
                       Cardinality(matched_keywords(p.keywords, content_lower)))
    IN IF \E i \in 1..Len(hit) : PatternResultRaises(conf(hit[i]))
       THEN Raised
       ELSE Returned([i \in 1..Len(hit) |->
                        PatternResult(hit[i].name, conf(hit[i]), FALSE, "coding_keyword")])

\* SequentialThinkingEngine.__init__: the detectors in registration order
pattern_detectors(content) ==
    <<KeywordPatternDetector(content),
      FallbackPatternDetector(content),
      CodingPatternDetector(content)>>

RECURSIVE extend_all_aborting(_)
\* a loop that a raising detector ends, the results so far returned
extend_all_aborting(outs) ==
    IF outs = <<>> \/ Head(outs).raised THEN <<>>
    ELSE Head(outs).results \o extend_all_aborting(Tail(outs))

RECURSIVE extend_all(_)
\* the loop of PluginManager.get_pattern_results over what the detectors
\* hand back
extend_all(outs) ==
    IF outs = <<>> THEN <<>>
    ELSE (IF Head(outs).raised THEN <<>> ELSE Head(outs).results)
         \o extend_all(Tail(outs))

\* PluginManager.get_pattern_results, computed once for each offered content
PatternTable == [c \in OfferedContents |-> extend_all(pattern_detectors(c))]

get_pattern_results(content) == PatternTable[content]

----------------------------------------------------------------------------
(* models.py *)

\* truthiness that takes None for an id
Truthy_of_none(id) == id >= None

\* Python truthiness of an optional id: None and "" are falsy
Truthy(id) == id # None

\* a __post_init__ that tests the content only
ThoughtRaises_content_only(content, confidence) == IsBlank(content)

\* Thought.__post_init__ raises ValueError
ThoughtRaises(content, confidence) ==
    \/ IsBlank(content)
    \/ ~(0 <= confidence /\ confidence <= 1000)

\* Branch.__post_init__ raises ValueError
BranchRaises(name) == IsBlank(name)

\* a __post_init__ that tests the problem statement only
ThinkingSessionRaises_problem_only(problem, criteria) == IsBlank(problem)

\* ThinkingSession.__post_init__ raises ValueError
ThinkingSessionRaises(problem, criteria) == IsBlank(problem) \/ IsBlank(criteria)

\* SessionConfig(): the default configuration every session gets
SessionConfig == [max_thoughts |-> max_thoughts, max_branches |-> max_branches]

----------------------------------------------------------------------------
(* Reading the state *)

\* SessionManager.get_session: the session, or None
HasSession(session_id) == session_id \in DOMAIN sessions

\* the thought-id lists of a session, keyed like Thought.branch_id: None for
\* the main thread, the branch id for a branch list
Threads(session) == {None} \cup DOMAIN session.branches
Thread(session, t) ==
    IF t = None THEN session.main_thread ELSE session.branches[t].thoughts

RECURSIVE SumLen(_, _)
SumLen(branches, ids) ==
    IF ids = {} THEN 0
    ELSE LET b == CHOOSE x \in ids : TRUE
         IN Len(branches[b].thoughts) + SumLen(branches, ids \ {b})

\* thought_count of check_memory_limits: main thread plus every branch list
thought_count(session) ==
    Len(session.main_thread) + SumLen(session.branches, DOMAIN session.branches)

\* a variant that refuses a session already at its ceiling
check_memory_limits_at_ceiling(session_id) ==
    IF ~HasSession(session_id) THEN FALSE
    ELSE thought_count(sessions[session_id]) < sessions[session_id].config.max_thoughts

\* SessionManager.check_memory_limits
check_memory_limits(session_id) ==
    IF ~HasSession(session_id) THEN FALSE
    ELSE IF thought_count(sessions[session_id]) > sessions[session_id].config.max_thoughts
         THEN FALSE
         ELSE TRUE

\* list.index(x): the first position holding x (the caller checks x is there)
index(list, x) == CHOOSE i \in 1..Len(list) : list[i] = x /\ \A j \in 1..(i-1) : list[j] # x

InList(list, x) == \E i \in 1..Len(list) : list[i] = x

\* SequentialThinkingEngine._detect_contradictions_async
negative_indicators == <<
    <<"n","o","t">>, <<"f","a","l","s","e">>,
    <<"i","n","c","o","r","r","e","c","t">>, <<"w","r","o","n","g">>,
    <<"i","m","p","o","s","s","i","b","l","e">>>>
positive_indicators == <<
    <<"t","r","u","e">>, <<"c","o","r","r","e","c","t">>,
    <<"r","i","g","h","t">>, <<"p","o","s","s","i","b","l","e">>,
    <<"v","a","l","i","d">>>>

\* a variant that does not look at the content of the dependency
detect_contradictions_any(content, dependencies) ==
    LET content_negative == ContainsAny(negative_indicators, lower(content))
    IN SelectSeq(dependencies,
                 LAMBDA d : d \in DOMAIN thoughts /\ content_negative)

detect_contradictions(content, dependencies) ==
    LET content_negative == ContainsAny(negative_indicators, lower(content))
        dep_positive(d) == ContainsAny(positive_indicators, lower(thoughts[d].content))
    IN SelectSeq(dependencies,
                 LAMBDA d : d \in DOMAIN thoughts /\ content_negative /\ dep_positive(d))

RECURSIVE tally_every(_, _)
\* a tally that counts every result, whatever its confidence
tally_every(counts, pattern_results) ==
    IF pattern_results = <<>> THEN counts
    ELSE LET r == Head(pattern_results)
             next == IF r.pattern \in DOMAIN counts
                     THEN [counts EXCEPT ![r.pattern] = @ + 1]
                     ELSE (r.pattern :> 1) @@ counts
         IN tally_every(next, Tail(pattern_results))

RECURSIVE tally(_, _)
\* the loop of _update_patterns_async
tally(counts, pattern_results) ==
    IF pattern_results = <<>> THEN counts
    ELSE LET r == Head(pattern_results)
             next == IF r.confidence >= PatternThreshold
                     THEN IF r.pattern \in DOMAIN counts
                          THEN [counts EXCEPT ![r.pattern] = @ + 1]
                          ELSE (r.pattern :> 1) @@ counts
                     ELSE counts
         IN tally(next, Tail(pattern_results))

\* SequentialThinkingEngine._update_patterns_async
update_patterns(pattern_results) == tally(patterns, pattern_results)

----------------------------------------------------------------------------
(* The outcome of the last call *)

\* value is the list of ids the call returned: one id for a call that returns
\* an id, the merged ids for merge_branch, nothing for a call that raised
Ok(op, value) == [op |-> op, ok |-> TRUE, error |-> "", value |-> value]
Err(op, error) == [op |-> op, ok |-> FALSE, error |-> error, value |-> <<>>]

\* the call raised before it changed anything
Raise(op, error) ==
    /\ result' = Err(op, error)
    /\ UNCHANGED <<thoughts, sessions, current_session, patterns, issued, clock,
                   pending>>

----------------------------------------------------------------------------
(* SequentialThinkingEngine.__init__ *)

Init ==
    /\ thoughts = <<>>
    /\ sessions = <<>>
    /\ current_session = None
    /\ patterns = <<>>
    /\ issued = [thought |-> 0, branch |-> 0, session |-> 0]
    /\ clock = 0
    /\ result = Ok("init", <<>>)
    /\ pending = <<>>

----------------------------------------------------------------------------
(* SessionManager.create_session and SequentialThinkingEngine.start_session *)

\* codebase_context is Optional[str]: <<>> is None, <<text>> a text
ThinkingSession(id, problem, criteria, constraints, now, coding_session) ==
    [id |-> id,
     problem_statement |-> problem,
     success_criteria |-> criteria,
     constraints |-> constraints,
     main_thread |-> <<>>,
     branches |-> <<>>,
     started |-> now,
     last_updated |-> now,
     config |-> SessionConfig,
     memory_usage |-> 0,
     coding_session |-> coding_session,
     codebase_context |-> <<>>]

\* create_session and start_session with session_id the value that
\* str(uuid.uuid4())[:8] yields at line 15 of session_manager.py; issued
\* counts the ids drawn
start_session_uuid(session_id, problem, criteria, constraints, coding_session) ==
    /\ issued.session < MaxSessionIds
    /\ LET now == clock + 1
       IN IF ThinkingSessionRaises(problem, criteria)
          THEN Raise("start_session", "ValueError: statement or criteria empty")
          ELSE /\ sessions' = (session_id :>
                                 ThinkingSession(session_id, problem, criteria,
                                                 constraints, now, coding_session))
                              @@ sessions
               /\ current_session' = session_id
               /\ issued' = [issued EXCEPT !.session = @ + 1]
               /\ clock' = now
               /\ result' = Ok("start_session", <<session_id>>)
               /\ UNCHANGED <<thoughts, patterns, pending>>

\* start_session when uuid4 yields an id not seen before
start_session(problem, criteria, constraints, coding_session) ==
    start_session_uuid(issued.session + 1, problem, criteria, constraints,
                       coding_session)

\* a cleanup that empties the store
cleanup_session_clearing(session_id) ==
    /\ sessions' = [s \in {} |-> sessions[s]]
    /\ result' = Ok("cleanup_session", <<>>)
    /\ UNCHANGED <<thoughts, current_session, patterns, issued, clock, pending>>

\* SessionManager.cleanup_session
cleanup_session(session_id) ==
    /\ sessions' = [s \in DOMAIN sessions \ {session_id} |-> sessions[s]]
    /\ result' = Ok("cleanup_session", <<>>)
    /\ UNCHANGED <<thoughts, current_session, patterns, issued, clock, pending>>

----------------------------------------------------------------------------
(* SequentialThinkingEngine.add_thought *)

\* thought_number: one more than the length of the target thread
thought_number(session, branch_id) ==
    IF ~Truthy(branch_id)
    THEN Len(session.main_thread) + 1
    ELSE Len(session.branches[branch_id].thoughts) + 1

\* max(5, thought_number + 2)
total_estimated(number) == IF 5 >= number + 2 THEN 5 ELSE number + 2

\* the guard of line 269: the branch id is given and is no key of the map
branch_missing(session, branch_id) ==
    Truthy(branch_id) /\ branch_id \notin DOMAIN session.branches

\* the guard of line 266
memory_limit_exceeded(session_id) == ~check_memory_limits(session_id)

\* lines 275-290: the contradictions and pattern results computed and the
\* Thought built around the id and number drawn at lines 272-273
new_thought(thought_id, number, content, dependencies, confidence, branch_id) ==
    [id |-> thought_id,
     content |-> content,
     number |-> number,
     total_estimated |-> total_estimated(number),
     timestamp |-> clock + 1,
     dependencies |-> dependencies,
     contradictions |-> detect_contradictions(content, dependencies),
     confidence |-> confidence,
     branch_id |-> branch_id,
     revision_of |-> None,
     pattern_results |-> get_pattern_results(content)]

\* an append that puts the id at the head of the list
append_thought_front(session, branch_id, thought_id, now) ==
    [(IF Truthy(branch_id)
      THEN [session EXCEPT !.branches[branch_id].thoughts = <<thought_id>> \o @]
      ELSE [session EXCEPT !.main_thread = <<thought_id>> \o @])
     EXCEPT !.last_updated = now]

\* lines 294-299: the id appended to its thread and last_updated set
append_thought(session, branch_id, thought_id, now) ==
    [(IF Truthy(branch_id)
      THEN [session EXCEPT !.branches[branch_id].thoughts = Append(@, thought_id)]
      ELSE [session EXCEPT !.main_thread = Append(@, thought_id)])
     EXCEPT !.last_updated = now]

\* add_thought draws at most MaxThoughtIds ids, or as many as the ceiling of
\* the current session when that is more
ThoughtIdLimit ==
    IF HasSession(current_session)
       /\ sessions[current_session].config.max_thoughts > MaxThoughtIds
    THEN sessions[current_session].config.max_thoughts
    ELSE MaxThoughtIds

\* lines 272-302 with thought_id the value that str(uuid.uuid4())[:8] yields
\* at line 272: the thought built, stored and appended
add_thought_drawing(thought_id, content, dependencies, confidence, branch_id) ==
    /\ issued.thought < ThoughtIdLimit
    /\ LET session == sessions[current_session]
           number == thought_number(session, branch_id)
           thought == new_thought(thought_id, number, content, dependencies,
                                  confidence, branch_id)
       IN IF ThoughtRaises(content, confidence)
          THEN Raise("add_thought", "ValueError: content empty or confidence out of range")
          ELSE /\ thoughts' = (thought_id :> thought) @@ thoughts
               /\ sessions' =
                    [sessions EXCEPT ![current_session] =
                       append_thought(session, branch_id, thought_id, clock + 2)]
               /\ patterns' = update_patterns(thought.pattern_results)
               /\ issued' = [issued EXCEPT !.thought = @ + 1]
               /\ clock' = clock + 2
               /\ result' = Ok("add_thought", <<thought_id>>)
               /\ UNCHANGED <<current_session, pending>>

\* lines 272-302 when uuid4 yields an id not seen before
add_thought_store(content, dependencies, confidence, branch_id) ==
    add_thought_drawing(issued.thought + 1, content, dependencies, confidence,
                        branch_id)

\* a variant that files a thought for an unknown branch on the main thread
add_thought_fallback(content, dependencies, confidence, branch_id) ==
    IF ~Truthy(current_session)
    THEN Raise("add_thought", "No active session")
    ELSE IF ~HasSession(current_session)
    THEN Raise("add_thought", "Session not found")
    ELSE IF memory_limit_exceeded(current_session)
    THEN Raise("add_thought", "Session memory limit exceeded")
    ELSE IF branch_missing(sessions[current_session], branch_id)
    THEN add_thought_store(content, dependencies, confidence, None)
    ELSE add_thought_store(content, dependencies, confidence, branch_id)

add_thought(content, dependencies, confidence, branch_id) ==
    IF ~Truthy(current_session)
    THEN Raise("add_thought", "No active session")
    ELSE IF ~HasSession(current_session)
    THEN Raise("add_thought", "Session not found")
    ELSE IF memory_limit_exceeded(current_session)
    THEN Raise("add_thought", "Session memory limit exceeded")
    ELSE IF branch_missing(sessions[current_session], branch_id)
    THEN Raise("add_thought", "Branch does not exist")
    ELSE add_thought_store(content, dependencies, confidence, branch_id)

\* add_thought with thought_id the value uuid4 yields
add_thought_uuid(thought_id, content, dependencies, confidence, branch_id) ==
    IF ~Truthy(current_session)
    THEN Raise("add_thought", "No active session")
    ELSE IF ~HasSession(current_session)
    THEN Raise("add_thought", "Session not found")
    ELSE IF memory_limit_exceeded(current_session)
    THEN Raise("add_thought", "Session memory limit exceeded")
    ELSE IF branch_missing(sessions[current_session], branch_id)
    THEN Raise("add_thought", "Branch does not exist")
    ELSE add_thought_drawing(thought_id, content, dependencies, confidence, branch_id)

----------------------------------------------------------------------------
(* SequentialThinkingEngine.add_thought, entered again before an earlier call *)
(* has stored its thought: the await of line 275 stands between the thought  *)
(* number of line 273 and the append of lines 294-297, and the engine holds  *)
(* no lock, so a second call (another task when the awaited analyzer yields, *)
(* another thread at any time) can run in between.                           *)

\* the frame of a call that has passed line 273: its arguments, the session
\* object it fetched at line 262, the id and the number it computed
Frame(session_id, thought_id, number, content, dependencies, confidence, branch_id) ==
    [session |-> session_id, thought_id |-> thought_id, number |-> number,
     content |-> content, dependencies |-> dependencies,
     confidence |-> confidence, branch_id |-> branch_id]

\* lines 259-273: the guards, the id and the thought number; the call is
\* then left at the await of line 275
add_thought_suspend(content, dependencies, confidence, branch_id) ==
    IF ~Truthy(current_session)
    THEN Raise("add_thought", "No active session")
    ELSE IF ~HasSession(current_session)
    THEN Raise("add_thought", "Session not found")
    ELSE IF memory_limit_exceeded(current_session)
    THEN Raise("add_thought", "Session memory limit exceeded")
    ELSE IF branch_missing(sessions[current_session], branch_id)
    THEN Raise("add_thought", "Branch does not exist")
    ELSE /\ issued.thought < MaxThoughtIds
         /\ Len(pending) < MaxPending
         /\ pending' = Append(pending,
                Frame(current_session, issued.thought + 1,
                      thought_number(sessions[current_session], branch_id),
                      content, dependencies, confidence, branch_id))
         /\ issued' = [issued EXCEPT !.thought = @ + 1]
         /\ UNCHANGED <<thoughts, sessions, current_session, patterns, clock, result>>

\* lines 275-302 of the k-th suspended call
add_thought_resume(k) ==
    /\ k \in 1..Len(pending)
    /\ LET f == pending[k]
           thought == new_thought(f.thought_id, f.number, f.content,
                                  f.dependencies, f.confidence, f.branch_id)
       IN /\ pending' = SubSeq(pending, 1, k - 1) \o SubSeq(pending, k + 1, Len(pending))
          /\ UNCHANGED <<current_session, issued>>
          /\ IF ThoughtRaises(f.content, f.confidence)
             THEN /\ result' = Err("add_thought",
                                   "ValueError: content empty or confidence out of range")
                  /\ UNCHANGED <<thoughts, sessions, patterns, clock>>
             ELSE /\ thoughts' = (f.thought_id :> thought) @@ thoughts
                  \* the frame holds the session object: once the store has
                  \* dropped it, the append reaches no stored session
                  /\ sessions' =
                       IF HasSession(f.session)
                       THEN [sessions EXCEPT ![f.session] =
                               append_thought(@, f.branch_id, f.thought_id, clock + 2)]
                       ELSE sessions
                  /\ patterns' = update_patterns(thought.pattern_results)
                  /\ clock' = clock + 2
                  /\ result' = Ok("add_thought", <<f.thought_id>>)

----------------------------------------------------------------------------
(* SequentialThinkingEngine.revise_thought *)

\* a variant that overwrites the head of the list
set_item_head(list, idx, x) == [list EXCEPT ![1] = x]

\* list[idx] = x
set_item(list, idx, x) == [list EXCEPT ![idx] = x]

\* lines 330-337: what the lookup of the original's thread raises, "" if nothing.
\* session is None when the current session is unset or no longer stored.
revise_lookup_error(original, original_id) ==
    IF ~HasSession(current_session)
    THEN "AttributeError: NoneType has no attribute"
    ELSE LET session == sessions[current_session]
         IN IF Truthy(original.branch_id)
            THEN IF original.branch_id \notin DOMAIN session.branches
                 THEN "KeyError: branch"
                 ELSE IF ~InList(session.branches[original.branch_id].thoughts, original_id)
                      THEN "ValueError: not in list"
                      ELSE ""
            ELSE IF ~InList(session.main_thread, original_id)
                 THEN "ValueError: not in list"
                 ELSE ""

\* a variant that keeps the contradictions found for the original
revised_thought_stale(revised_id, original, original_id, new_content, confidence) ==
    [id |-> revised_id,
     content |-> new_content,
     number |-> original.number,
     total_estimated |-> original.total_estimated,
     timestamp |-> clock + 1,
     dependencies |-> original.dependencies,
     contradictions |-> original.contradictions,
     confidence |-> confidence,
     branch_id |-> original.branch_id,
     revision_of |-> original_id,
     pattern_results |-> get_pattern_results(new_content)]

\* lines 311-326: the contradictions and pattern results computed for the
\* new content and the revised Thought built
revised_thought(revised_id, original, original_id, new_content, confidence) ==
    [id |-> revised_id,
     content |-> new_content,
     number |-> original.number,
     total_estimated |-> original.total_estimated,
     timestamp |-> clock + 1,
     dependencies |-> original.dependencies,
     contradictions |-> detect_contradictions(new_content, original.dependencies),
     confidence |-> confidence,
     branch_id |-> original.branch_id,
     revision_of |-> original_id,
     pattern_results |-> get_pattern_results(new_content)]

revise_thought(original_id, new_content, confidence) ==
    IF original_id \notin DOMAIN thoughts
    THEN Raise("revise_thought", "Original thought not found")
    ELSE
      /\ issued.thought < MaxThoughtIds
      /\ LET original == thoughts[original_id]
             revised_id == issued.thought + 1
             revised == revised_thought(revised_id, original, original_id,
                                        new_content, confidence)
             pattern_results == revised.pattern_results
             error == revise_lookup_error(original, original_id)
         IN IF ThoughtRaises(new_content, confidence)
            THEN Raise("revise_thought", "ValueError: content empty or confidence out of range")
            ELSE \* line 328: the revised thought is stored before its thread is looked up
                 /\ thoughts' = (revised_id :> revised) @@ thoughts
                 /\ issued' = [issued EXCEPT !.thought = revised_id]
                 /\ clock' = clock + 1
                 /\ UNCHANGED <<current_session, pending>>
                 /\ IF error # ""
                    THEN /\ result' = Err("revise_thought", error)
                         /\ UNCHANGED <<sessions, patterns>>
                    ELSE LET session == sessions[current_session]
                         IN /\ sessions' =
                                 [sessions EXCEPT ![current_session] =
                                    IF Truthy(original.branch_id)
                                    THEN [session EXCEPT
                                            !.branches[original.branch_id].thoughts =
                                                set_item(@, index(@, original_id), revised_id)]
                                    ELSE [session EXCEPT
                                            !.main_thread =
                                                set_item(@, index(@, original_id), revised_id)]]
                            /\ patterns' = update_patterns(pattern_results)
                            /\ result' = Ok("revise_thought", <<revised_id>>)

----------------------------------------------------------------------------
(* SequentialThinkingEngine.create_branch *)

Branch(id, name, created_from, purpose) ==
    [id |-> id, name |-> name, created_from |-> created_from, purpose |-> purpose,
     thoughts |-> <<>>, merged |-> FALSE, merge_target |-> None]

\* a variant that lets one branch more in
max_branches_reached_late(session) ==
    Cardinality(DOMAIN session.branches) > session.config.max_branches

\* the guard of line 350: len(session.branches) >= session.config.max_branches
max_branches_reached(session) ==
    Cardinality(DOMAIN session.branches) >= session.config.max_branches

\* create_branch with branch_id the value that str(uuid.uuid4())[:8] yields at
\* line 353
create_branch_uuid(branch_id, name, from_thought, purpose) ==
    IF ~Truthy(current_session)
    THEN Raise("create_branch", "No active session")
    ELSE IF ~HasSession(current_session)
    THEN Raise("create_branch", "Session not found")
    ELSE IF max_branches_reached(sessions[current_session])
    THEN Raise("create_branch", "Maximum branches exceeded")
    ELSE
      /\ issued.branch < MaxBranchIds
      /\ IF BranchRaises(name)
         THEN Raise("create_branch", "ValueError: branch name empty")
         ELSE /\ sessions' =
                   [sessions EXCEPT ![current_session].branches =
                      (branch_id :> Branch(branch_id, name, from_thought, purpose)) @@ @]
              /\ issued' = [issued EXCEPT !.branch = @ + 1]
              /\ result' = Ok("create_branch", <<branch_id>>)
              /\ UNCHANGED <<thoughts, current_session, patterns, clock, pending>>

\* create_branch when uuid4 yields an id not seen before
create_branch(name, from_thought, purpose) ==
    create_branch_uuid(issued.branch + 1, name, from_thought, purpose)

----------------------------------------------------------------------------
(* SequentialThinkingEngine.merge_branch *)

\* a variant that inserts the branch ahead of the main thread
merged_main_thread_front(main_thread, branch_thoughts) == branch_thoughts \o main_thread

\* the main thread after the loop of lines 378-382
merged_main_thread(main_thread, branch_thoughts) == main_thread \o branch_thoughts

\* a variant that takes the merged thoughts out of the table
clear_branch_ids_dropping(table, branch_thoughts) ==
    [t \in {u \in DOMAIN table : ~InList(branch_thoughts, u)} |-> table[t]]

\* a variant that leaves branch_id on the merged thoughts
clear_branch_ids_keeping(table, branch_thoughts) == table

\* the thought table after the loop: branch_id cleared on every listed thought
clear_branch_ids(table, branch_thoughts) ==
    [t \in DOMAIN table |->
        IF InList(branch_thoughts, t)
        THEN [table[t] EXCEPT !.branch_id = None]
        ELSE table[t]]

\* a variant that flips the merged flag
mark_merged_toggling(branch, target_thought) ==
    [branch EXCEPT !.merged = ~@, !.merge_target = target_thought]

\* lines 384-385: branch.merged = True; branch.merge_target = target_thought
mark_merged(branch, target_thought) ==
    [branch EXCEPT !.merged = TRUE, !.merge_target = target_thought]

merge_branch(branch_id, target_thought) ==
    IF ~Truthy(current_session)
    THEN Raise("merge_branch", "No active session")
    ELSE IF ~HasSession(current_session)
            \/ branch_id \notin DOMAIN sessions[current_session].branches
    THEN Raise("merge_branch", "Branch not found")
    ELSE
      LET session == sessions[current_session]
          branch == session.branches[branch_id]
      IN /\ Len(session.main_thread) + Len(branch.thoughts) <= MaxThreadLen
         /\ thoughts' = clear_branch_ids(thoughts, branch.thoughts)
         /\ sessions' =
              [sessions EXCEPT ![current_session] =
                 [session EXCEPT
                    !.main_thread = merged_main_thread(@, branch.thoughts),
                    !.branches[branch_id] = mark_merged(@, target_thought)]]
         /\ result' = Ok("merge_branch", branch.thoughts)
         /\ UNCHANGED <<current_session, patterns, issued, clock, pending>>

----------------------------------------------------------------------------
(* SequentialThinkingEngine.get_thought_tree *)

\* a variant that advances the clock
Return_ticking(op, value) ==
    /\ result' = Ok(op, value)
    /\ clock' = clock + 1
    /\ UNCHANGED <<thoughts, sessions, current_session, patterns, issued, pending>>

\* a read-only call returns: only the outcome changes
Return(op, value) ==
    /\ result' = Ok(op, value)
    /\ UNCHANGED <<thoughts, sessions, current_session, patterns, issued, clock,
                   pending>>

RECURSIVE branch_lists(_, _)
\* the thought-id lists of the branches from id b on, in dict order (the
\* order of creation, which is the order of the ids)
branch_lists(branches, b) ==
    IF b > MaxBranchIds THEN <<>>
    ELSE (IF b \in DOMAIN branches THEN branches[b].thoughts ELSE <<>>)
         \o branch_lists(branches, b + 1)

\* the ids get_analysis collects: the main thread, then every branch list
all_thoughts(session) == session.main_thread \o branch_lists(session.branches, 1)

\* self.thoughts[tid] raises KeyError for a listed id that is no key
missing_thought(session) ==
    \E i \in 1..Len(all_thoughts(session)) : all_thoughts(session)[i] \notin DOMAIN thoughts

\* build_tree: one node for each id of the list
build_tree(thought_ids) ==
    [i \in 1..Len(thought_ids) |->
        LET thought == thoughts[thought_ids[i]]
        IN [id |-> thought_ids[i],
            content |-> thought.content,
            number |-> thought.number,
            confidence |-> thought.confidence,
            contradictions |-> Len(thought.contradictions) > 0,
            revision_of |-> thought.revision_of,
            dependencies |-> thought.dependencies,
            pattern_results |-> thought.pattern_results]]

\* the dict get_thought_tree returns while session_id is current and stored
thought_tree(session_id) ==
    LET session == sessions[session_id]
    IN [problem |-> session.problem_statement,
        main_thread |-> build_tree(session.main_thread),
        branches |-> [b \in DOMAIN session.branches |->
                        [name |-> session.branches[b].name,
                         purpose |-> session.branches[b].purpose,
                         thoughts |-> build_tree(session.branches[b].thoughts),
                         merged |-> session.branches[b].merged]]]

\* the value is <<>> for the empty dict and <<tree>> for a tree
get_thought_tree ==
    IF ~Truthy(current_session) \/ ~HasSession(current_session)
    THEN Return("get_thought_tree", <<>>)
    ELSE IF missing_thought(sessions[current_session])
    THEN Raise("get_thought_tree", "KeyError: thought")
    ELSE Return("get_thought_tree", <<thought_tree(current_session)>>)

----------------------------------------------------------------------------
(* SequentialThinkingEngine.get_analysis *)

RECURSIVE SumSeq(_)
SumSeq(q) == IF q = <<>> THEN 0 ELSE Head(q) + SumSeq(Tail(q))

\* round(num / den, 2) in thousandths, to the nearest hundredth
round2(num, den) == 10 * ((num + 5 * den) \div (10 * den))

\* an assessment whose thresholds include 3 and 7
assess_quality_inclusive(session_id) ==
    IF ~Truthy(session_id) THEN "unknown"
    ELSE IF ~HasSession(session_id) THEN "unknown"
    ELSE LET total_thoughts == Len(sessions[session_id].main_thread)
         IN IF total_thoughts <= 3 THEN "insufficient"
            ELSE IF total_thoughts <= 7 THEN "basic"
            ELSE IF Cardinality(DOMAIN sessions[session_id].branches) > 0 THEN "advanced"
            ELSE "good"

\* _assess_quality while session_id is current
assess_quality(session_id) ==
    IF ~Truthy(session_id) THEN "unknown"
    ELSE IF ~HasSession(session_id) THEN "unknown"
    ELSE LET total_thoughts == Len(sessions[session_id].main_thread)
         IN IF total_thoughts < 3 THEN "insufficient"
            ELSE IF total_thoughts < 7 THEN "basic"
            ELSE IF Cardinality(DOMAIN sessions[session_id].branches) > 0 THEN "advanced"
            ELSE "good"

RECURSIVE pattern_confidences(_)
\* the confidences _assess_pattern_quality adds up, in loop order
pattern_confidences(thought_ids) ==
    IF thought_ids = <<>> THEN <<>>
    ELSE LET results == thoughts[Head(thought_ids)].pattern_results
         IN [i \in 1..Len(results) |-> results[i].confidence]
            \o pattern_confidences(Tail(thought_ids))

\* total_confidence / pattern_count > bound in IEEE doubles. The offered
\* contents yield only keyword results of 0.8; adding 0.8 up n times and
\* dividing by n gives 0.8000000000000002 for n = 3 and at most 0.8 for every
\* other n up to 12.
mean_exceeds(confidences, bound) ==
    \/ SumSeq(confidences) > bound * Len(confidences)
    \/ bound = 800 /\ confidences = <<800, 800, 800>>

\* _assess_pattern_quality
assess_pattern_quality(thought_ids) ==
    IF thought_ids = <<>>
    THEN [quality |-> "unknown", confidence_avg |-> 0]
    ELSE LET confidences == pattern_confidences(thought_ids)
             pattern_count == Len(confidences)
             fallback_count ==
                 SumSeq([i \in 1..Len(thought_ids) |->
                           Len(SelectSeq(thoughts[thought_ids[i]].pattern_results,
                                         LAMBDA r : r.fallback_used))])
         IN [quality |-> IF pattern_count > 0 /\ mean_exceeds(confidences, 800)
                         THEN "high"
                         ELSE IF pattern_count > 0 /\ mean_exceeds(confidences, 600)
                         THEN "medium"
                         ELSE "low",
             confidence_avg |-> IF pattern_count > 0
                                THEN round2(SumSeq(confidences), pattern_count)
                                ELSE 0,
             fallback_ratio |-> IF pattern_count > 0
                                THEN round2(1000 * fallback_count, pattern_count)
                                ELSE 0,
             pattern_count |-> pattern_count]

\* the dict get_analysis returns while session_id is current and stored
analysis(session_id) ==
    LET session == sessions[session_id]
        ids == all_thoughts(session)
        confidences == [i \in 1..Len(ids) |-> thoughts[ids[i]].confidence]
    IN [total_thoughts |-> Len(ids),
        contradictions_found |->
            Len(SelectSeq(ids, LAMBDA t : thoughts[t].contradictions # <<>>)),
        average_confidence |->
            IF ids # <<>> THEN round2(SumSeq(confidences), Len(ids)) ELSE 0,
        revisions_made |->
            Len(SelectSeq(ids, LAMBDA t : Truthy(thoughts[t].revision_of))),
        branches_created |-> Cardinality(DOMAIN session.branches),
        patterns_detected |-> patterns,
        thinking_quality |-> assess_quality(session_id),
        pattern_quality |-> assess_pattern_quality(ids),
        memory_usage |-> session.memory_usage]

get_analysis ==
    IF ~Truthy(current_session) \/ ~HasSession(current_session)
    THEN Return("get_analysis", <<>>)
    ELSE IF missing_thought(sessions[current_session])
    THEN Raise("get_analysis", "KeyError: thought")
    ELSE Return("get_analysis", <<analysis(current_session)>>)

----------------------------------------------------------------------------
(* Inputs *)

TextAlt == <<"a","l","t">>
TextPurpose == <<"w","h","y">>
BranchNames == {TextAlt, TextBlank}

ThoughtIdInputs == (1..MaxThoughtIds) \cup {UnknownId}
BranchIdInputs == (1..MaxBranchIds) \cup {UnknownId}
SessionIdInputs == 1..MaxSessionIds

\* dependency lists offered to add_thought: the default, no dependencies
DependencyInputs == {<<>>}

StartSession ==
    \E problem \in Statements, criteria \in Statements :
        start_session(problem, criteria, <<>>, FALSE)

CleanupSession == \E session_id \in SessionIdInputs : cleanup_session(session_id)

AddThought ==
    \E content \in Contents, dependencies \in DependencyInputs,
       confidence \in Confidences, branch_id \in {None} \cup BranchIdInputs :
        add_thought(content, dependencies, confidence, branch_id)

ReviseThought ==
    \E original_id \in ThoughtIdInputs, new_content \in Contents,
       confidence \in Confidences :
        revise_thought(original_id, new_content, confidence)

CreateBranch ==
    \E name \in BranchNames, from_thought \in {1} :
        create_branch(name, from_thought, TextPurpose)

MergeBranch ==
    \E branch_id \in BranchIdInputs, target_thought \in {1} :
        merge_branch(branch_id, target_thought)

Next ==
    \/ StartSession
    \/ CleanupSession
    \/ AddThought
    \/ ReviseThought
    \/ CreateBranch
    \/ MergeBranch
    \/ get_thought_tree
    \/ get_analysis

Spec == Init /\ [][Next]_vars

----------------------------------------------------------------------------
(* The engine under overlapping add_thought calls *)

AddThoughtSuspend ==
    \E content \in Contents, dependencies \in DependencyInputs,
       confidence \in Confidences, branch_id \in {None} \cup BranchIdInputs :
        add_thought_suspend(content, dependencies, confidence, branch_id)

AddThoughtResume == \E k \in 1..MaxPending : add_thought_resume(k)

OverlapNext ==
    \/ StartSession
    \/ CreateBranch
    \/ AddThoughtSuspend
    \/ AddThoughtResume

OverlapSpec == Init /\ [][OverlapNext]_vars

----------------------------------------------------------------------------
(* The engine fed contents the analyzers tell apart, and dependency lists *)

\* dependency lists offered to add_thought: none, and two ids in descending
\* order; the second thought is offered <<2, 1>> while 2 is no key of the
\* table yet, the third while both are keys
DependencyLists == {<<>>, <<2, 1>>}

ContentStartSession == start_session(TextProblem, TextProblem, <<>>, FALSE)

ContentAddThought ==
    \E content \in RichContents, dependencies \in DependencyLists,
       branch_id \in {None} \cup (1..MaxBranchIds) :
        add_thought(content, dependencies, 900, branch_id)

ContentReviseThought ==
    \E original_id \in 1..MaxThoughtIds, new_content \in RichContents :
        revise_thought(original_id, new_content, 900)

ContentCreateBranch == create_branch(TextAlt, 1, TextPurpose)

ContentNext ==
    \/ ContentStartSession
    \/ ContentAddThought
    \/ ContentReviseThought
    \/ ContentCreateBranch

ContentSpec == Init /\ [][ContentNext]_vars

----------------------------------------------------------------------------
(* PackageDiscoveryEngine *)

\* PackageInfo(name, version, description, installed, relevance_score);
\* __post_init__ clamps the score into [0.0, 1.0]
PackageInfo(name, version, installed, relevance_score) ==
    [name |-> name, version |-> version, installed |-> installed,
     relevance_score |-> IF relevance_score < 0 THEN 0
                         ELSE IF relevance_score > 1000 THEN 1000
                         ELSE relevance_score]

RECURSIVE split(_)
\* str.split(): the words between runs of whitespace
split(s) ==
    LET rest == strip(s)
    IN IF rest = <<>> THEN <<>>
       ELSE LET stop == IF \E i \in 1..Len(rest) : IsSpace(rest[i])
                        THEN CHOOSE i \in 1..Len(rest) :
                                /\ IsSpace(rest[i])
                                /\ \A j \in 1..(i-1) : ~IsSpace(rest[j])
                        ELSE Len(rest) + 1
            IN <<SubSeq(rest, 1, stop - 1)>> \o split(SubSeq(rest, stop, Len(rest)))

\* the matches counted by _calculate_relevance
matches(text, keywords) ==
    Len(SelectSeq(keywords, LAMBDA keyword : Contains(keyword, lower(text))))

\* _calculate_relevance, in thousandths
calculate_relevance(text, keywords) ==
    IF keywords # <<>> THEN (1000 * matches(text, keywords)) \div Len(keywords) ELSE 0

\* sort_key of _rank_packages: (-relevance_score, not installed), False
\* sorting before True
sort_key(pkg) == <<0 - pkg.relevance_score, IF pkg.installed THEN 0 ELSE 1>>

\* tuple comparison k1 <= k2
key_le(k1, k2) == k1[1] < k2[1] \/ (k1[1] = k2[1] /\ k1[2] <= k2[2])

RECURSIVE sorted(_)
\* sorted(packages, key=sort_key): ascending and stable
sorted(packages) ==
    IF packages = <<>> THEN <<>>
    ELSE LET pkg == packages[Len(packages)]
             before == sorted(SubSeq(packages, 1, Len(packages) - 1))
             keep == Len(SelectSeq(before,
                                   LAMBDA q : key_le(sort_key(q), sort_key(pkg))))
         IN SubSeq(before, 1, keep) \o <<pkg>> \o SubSeq(before, keep + 1, Len(before))

\* _rank_packages
rank_packages(packages, task_description) == sorted(packages)

\* what subprocess.run(["pip", "list", "--format=json"], ...) does: it raises,
\* or completes with a return code and an output that json.loads decodes to
\* the list installed_packages or rejects
PipRun(raises, returncode, decodes, installed_packages) ==
    [raises |-> raises, returncode |-> returncode, decodes |-> decodes,
     installed_packages |-> installed_packages]

\* the exceptions the except clause of _search_installed_packages names
CaughtExceptions == {"TimeoutExpired", "JSONDecodeError"}

\* _search_installed_packages: the exception that leaves it, if any, and the
\* list it returns
search_installed_packages(task_description, run) ==
    LET keywords == split(lower(task_description))
        relevant == SelectSeq(run.installed_packages,
                              LAMBDA pkg : 10 * matches(pkg.name, keywords)
                                             > 3 * Len(keywords))
        raised == IF run.raises # "" THEN run.raises
                  ELSE IF run.returncode = 0 /\ ~run.decodes THEN "JSONDecodeError"
                  ELSE ""
    IN IF raised # ""
       THEN [raised |-> IF raised \in CaughtExceptions THEN "" ELSE raised,
             packages |-> <<>>]
       ELSE IF run.returncode # 0
       THEN [raised |-> "", packages |-> <<>>]
       ELSE [raised |-> "",
             packages |-> [i \in 1..Len(relevant) |->
                             PackageInfo(relevant[i].name, relevant[i].version, TRUE,
                                         calculate_relevance(relevant[i].name, keywords))]]

TextRequests == <<"r","e","q","u","e","s","t","s">>
TextUrllib3 == <<"u","r","l","l","i","b","3">>
TextTask == <<"H","T","T","P"," "," ","r","e","q","u","e","s","t","s">>

\* packages handed to _rank_packages: installed or not, scored 0.7 or 0.8
CandidatePackages ==
    {PackageInfo(name, "1", installed, relevance_score) :
        name \in {TextRequests, TextUrllib3}, installed \in BOOLEAN,
        relevance_score \in {700, 800}}

PackageLists == UNION {[1..n -> CandidatePackages] : n \in 0..MaxPackages}

\* the output of pip list
PipList == <<[name |-> TextRequests, version |-> "2"], [name |-> TextUrllib3, version |-> "2"]>>

PipRuns ==
    {PipRun(raises, 0, TRUE, <<>>) :
        raises \in {"TimeoutExpired", "FileNotFoundError", "Exception"}}
    \cup {PipRun("", returncode, decodes, PipList) :
             returncode \in {0, 1}, decodes \in BOOLEAN}

RankPackages(packages) ==
    Return("_rank_packages", rank_packages(packages, TextTask))

SearchInstalledPackages(run) ==
    LET found == search_installed_packages(TextTask, run)
    IN IF found.raised # ""
       THEN Raise("_search_installed_packages", found.raised)
       ELSE Return("_search_installed_packages", found.packages)

DiscoveryNext ==
    \/ \E packages \in PackageLists : RankPackages(packages)
    \/ \E run \in PipRuns : SearchInstalledPackages(run)

DiscoverySpec == Init /\ [][DiscoveryNext]_vars

----------------------------------------------------------------------------
(* The pattern detectors at work: contents of every kind, and a plugin *)
(* manager whose three detectors hand back any lists or raise           *)

\* what a registered detector may hand back
DetectorOutcomes ==
    LET a == PatternResult("assumption", 800, FALSE, "keyword")
        b == PatternResult("detailed_analysis", 500, TRUE, "fallback")
    IN {Raised, Returned(<<a>>), Returned(<<b, a>>)}

GetPatternResults(outs) == Return("get_pattern_results", extend_all(outs))

PatternStartSession == start_session(TextProblem, TextProblem, <<>>, FALSE)

PatternAddThought ==
    \E content \in PatternContents : add_thought(content, <<>>, 900, None)

PatternNext ==
    \/ PatternStartSession
    \/ PatternAddThought
    \/ \E outs \in [1..3 -> DetectorOutcomes] : GetPatternResults(outs)

PatternSpec == Init /\ [][PatternNext]_vars

----------------------------------------------------------------------------
(* CodingWorkflowEngine *)

\* the task asyncio.create_task schedules at line 189
Task(session_id, problem) == [session |-> session_id, problem |-> problem]

\* start_coding_session; running_loop tells whether the calling thread has a
\* running event loop, without which asyncio.create_task raises RuntimeError
start_coding_session(problem, success_criteria, constraints, codebase_context, package_exploration_required, running_loop) ==
    /\ issued.session < MaxSessionIds
    /\ IF ThinkingSessionRaises(problem, success_criteria)
       THEN Raise("start_coding_session", "ValueError: statement or criteria empty")
       ELSE LET session_id == issued.session + 1
                now == clock + 1
                session == [ThinkingSession(session_id, problem, success_criteria,
                                            constraints, now, TRUE)
                              EXCEPT !.codebase_context = <<codebase_context>>]
            IN /\ package_exploration_required /\ running_loop
                     => Len(pending) < MaxPending
               /\ sessions' = (session_id :> session) @@ sessions
               /\ current_session' = session_id
               /\ issued' = [issued EXCEPT !.session = @ + 1]
               /\ clock' = now
               /\ UNCHANGED <<thoughts, patterns>>
               /\ IF ~package_exploration_required
                  THEN /\ result' = Ok("start_coding_session", <<session_id>>)
                       /\ pending' = pending
                  ELSE IF running_loop
                  THEN /\ result' = Ok("start_coding_session", <<session_id>>)
                       /\ pending' = Append(pending, Task(session_id, problem))
                  ELSE /\ result' = Err("start_coding_session",
                                        "RuntimeError: no running event loop")
                       /\ pending' = pending

\* _add_package_discovery_thought, the oldest scheduled task run by the
\* event loop: add_thought with the task's session made current, the pointer
\* put back by the finally clause
add_package_discovery_thought ==
    /\ pending # <<>>
    /\ LET task == Head(pending)
           content == MandatoryContent(task.problem)
           thought_id == issued.thought + 1
       IN /\ pending' = Tail(pending)
          /\ current_session' = current_session
          /\ IF ~Truthy(task.session)
             THEN /\ result' = Err("_add_package_discovery_thought", "No active session")
                  /\ UNCHANGED <<thoughts, sessions, patterns, issued, clock>>
             ELSE IF ~HasSession(task.session)
             THEN /\ result' = Err("_add_package_discovery_thought", "Session not found")
                  /\ UNCHANGED <<thoughts, sessions, patterns, issued, clock>>
             ELSE IF memory_limit_exceeded(task.session)
             THEN /\ result' = Err("_add_package_discovery_thought",
                                   "Session memory limit exceeded")
                  /\ UNCHANGED <<thoughts, sessions, patterns, issued, clock>>
             ELSE /\ issued.thought < MaxThoughtIds
                  /\ LET number == thought_number(sessions[task.session], None)
                         thought == new_thought(thought_id, number, content, <<>>,
                                                900, None)
                     IN /\ thoughts' = (thought_id :> thought) @@ thoughts
                        /\ sessions' = [sessions EXCEPT ![task.session] =
                                          append_thought(@, None, thought_id, clock + 2)]
                        /\ patterns' = update_patterns(thought.pattern_results)
                        /\ issued' = [issued EXCEPT !.thought = @ + 1]
                        /\ clock' = clock + 2
                        /\ result' = Ok("_add_package_discovery_thought", <<thought_id>>)

TextUsePython == <<"U","s","e"," ","P","y","t","h","o","n">>

\* constraint lists offered to start_coding_session
ConstraintLists == {<<>>, <<TextUsePython>>}

CodingStartCodingSession ==
    \E problem \in {TextProblem, TextBlank}, constraints \in ConstraintLists,
       package_exploration_required \in BOOLEAN, running_loop \in BOOLEAN :
        start_coding_session(problem, TextProblem, constraints, <<>>,
                             package_exploration_required, running_loop)

CodingStartSession == start_session(TextProblem, TextProblem, <<>>, FALSE)

CodingAddThought == add_thought(TextValid, <<>>, 900, None)

CodingNext ==
    \/ CodingStartCodingSession
    \/ add_package_discovery_thought
    \/ CodingStartSession
    \/ CodingAddThought

CodingSpec == Init /\ [][CodingNext]_vars

----------------------------------------------------------------------------
(* One session that may grow to MaxQualityLen thoughts, and its analysis *)

\* the engine after its first start_session, the session's max_thoughts
\* standing at MaxQualityLen (SessionConfig's own default is 1000)
QualityInit ==
    /\ thoughts = <<>>
    /\ sessions = (1 :> [ThinkingSession(1, TextProblem, TextProblem, <<>>, 1, FALSE)
                           EXCEPT !.config.max_thoughts = MaxQualityLen])
    /\ current_session = 1
    /\ patterns = <<>>
    /\ issued = [thought |-> 0, branch |-> 0, session |-> 1]
    /\ clock = 1
    /\ result = Ok("start_session", <<1>>)
    /\ pending = <<>>

QualityAddThought ==
    \E branch_id \in {None} \cup BranchIdInputs :
        add_thought(TextValid, <<>>, 900, branch_id)

QualityCreateBranch ==
    \E from_thought \in 1..2 : create_branch(TextAlt, from_thought, TextPurpose)

QualityNext ==
    \/ QualityAddThought
    \/ QualityCreateBranch
    \/ get_analysis

QualitySpec == QualityInit /\ [][QualityNext]_vars

----------------------------------------------------------------------------
(* The engine when a uuid4 draw may repeat an id already handed out *)

UuidStartSession ==
    \E session_id \in 1..MaxSessionIds :
        start_session_uuid(session_id, TextProblem, TextProblem, <<>>, FALSE)

UuidAddThought ==
    \E thought_id \in 1..MaxThoughtIds, branch_id \in {None} \cup (1..MaxBranchIds) :
        add_thought_uuid(thought_id, TextValid, <<>>, 900, branch_id)

UuidCreateBranch ==
    \E branch_id \in 1..MaxBranchIds :
        create_branch_uuid(branch_id, TextAlt, 1, TextPurpose)

UuidNext ==
    \/ UuidStartSession
    \/ UuidAddThought
    \/ UuidCreateBranch

UuidSpec == Init /\ [][UuidNext]_vars

----------------------------------------------------------------------------
(* The engine called by two actors, each working on a session of its own *)

\* the actor has started a session that is still stored
HasStarted(a) == \E s \in DOMAIN sessions : sessions[s].problem_statement = ActorText(a)

\* the branch ids returned to the actor
BranchesOf(a) ==
    {b \in 1..MaxBranchIds :
        \E s \in DOMAIN sessions :
            b \in DOMAIN sessions[s].branches /\ sessions[s].branches[b].name = ActorText(a)}

ActorStartSession(a) == start_session(ActorText(a), ActorText(a), <<>>, FALSE)

ActorAddThought(a) ==
    /\ HasStarted(a)
    /\ \E branch_id \in {None} \cup BranchesOf(a) :
          add_thought(ActorText(a), <<>>, 900, branch_id)

ActorCreateBranch(a) ==
    /\ HasStarted(a)
    /\ create_branch(ActorText(a), 1, TextPurpose)

ActorMergeBranch(a) ==
    /\ HasStarted(a)
    /\ \E branch_id \in BranchesOf(a) : merge_branch(branch_id, 1)

ActorsNext ==
    \E a \in Actors :
        \/ ActorStartSession(a)
        \/ ActorAddThought(a)
        \/ ActorCreateBranch(a)
        \/ ActorMergeBranch(a)

ActorsSpec == Init /\ [][ActorsNext]_vars

----------------------------------------------------------------------------
(* Properties *)

\* the state a failed call must leave alone
EngineState == <<thoughts, sessions, current_session, patterns>>

MainThread(s) == sessions[s].main_thread
Branches(s) == sessions[s].branches

\* the number of (thread, position) places of a session that hold a thought id
Places(session) ==
    Cardinality({<<t, i>> \in Threads(session) \X (1..(2 * MaxThreadLen)) :
                    i <= Len(Thread(session, t))})

ThoughtInputs == Contents \X Confidences

\* C1: in every session the thoughts of the main thread carry the numbers
\* 1..N in list order.
C1_MainThreadNumbered ==
    \A s \in DOMAIN sessions :
        \A i \in 1..Len(MainThread(s)) : thoughts[MainThread(s)[i]].number = i

\* C2: a call that fails leaves the thought table, every session's threads
\* and branches, the pattern tally and the current-session pointer as they
\* were.
C2_FailedCallChangesNothing ==
    [][(~result'.ok) => (EngineState' = EngineState)]_vars

\* C3: merge_branch on a branch that is already merged leaves the main
\* thread of the session unchanged.
C3_RepeatedMergeKeepsMainThread ==
    [][\A b \in BranchIdInputs :
          ( /\ result'.op = "merge_branch"
            /\ HasSession(current_session)
            /\ b \in DOMAIN Branches(current_session)
            /\ Branches(current_session)[b].merged
            /\ merge_branch(b, 1) )
          => MainThread(current_session)' = MainThread(current_session)]_vars

\* C4: add_thought into a branch of the current session that is already
\* merged fails and adds no thought to the table or to any thread.
C4_AddToMergedBranchFails ==
    [][\A in \in ThoughtInputs, b \in BranchIdInputs :
          ( /\ result'.op = "add_thought"
            /\ HasSession(current_session)
            /\ b \in DOMAIN Branches(current_session)
            /\ Branches(current_session)[b].merged
            /\ add_thought(in[1], <<>>, in[2], b) )
          => /\ ~result'.ok
             /\ thoughts' = thoughts
             /\ sessions' = sessions]_vars

\* C5: merge_branch on an open branch B appends B's ids to the main thread
\* in B's order, clears branch_id on each of them, marks B merged, records
\* the target, returns B's list and leaves B's list as it was.
C5_MergeOpenBranch ==
    [][\A b \in BranchIdInputs :
          ( /\ result'.op = "merge_branch"
            /\ HasSession(current_session)
            /\ b \in DOMAIN Branches(current_session)
            /\ ~Branches(current_session)[b].merged
            /\ merge_branch(b, 1) )
          => LET B == Branches(current_session)[b]
                 after == sessions'[current_session]
             IN /\ after.main_thread = MainThread(current_session) \o B.thoughts
                /\ \A i \in 1..Len(B.thoughts) :
                      thoughts'[B.thoughts[i]].branch_id = None
                /\ after.branches[b].merged
                /\ after.branches[b].merge_target = 1
                /\ after.branches[b].thoughts = B.thoughts
                /\ result' = Ok("merge_branch", B.thoughts)]_vars

\* C5 witness: a branch holding a thought was merged behind a non-empty
\* main thread.
C5_Witness ==
    /\ result.op = "merge_branch" /\ result.ok /\ Len(result.value) >= 1
    /\ HasSession(current_session)
    /\ Len(MainThread(current_session)) > Len(result.value)
    /\ MainThread(current_session)[1] # result.value[1]
    /\ \E b \in DOMAIN Branches(current_session) :
          /\ Branches(current_session)[b].merged
          /\ Branches(current_session)[b].thoughts = result.value

\* C6: a successful revise_thought of X puts the new id at the position X
\* held in its thread and leaves the length and every other position of
\* that thread, every other thread and every stored thought unchanged.
C6_ReviseKeepsPositions ==
    [][\A x \in ThoughtIdInputs, in \in ThoughtInputs :
          (result'.op = "revise_thought" /\ result'.ok /\ revise_thought(x, in[1], in[2]))
          => /\ DOMAIN sessions' = DOMAIN sessions
             /\ \A id \in DOMAIN thoughts : thoughts'[id] = thoughts[id]
             /\ \E s \in DOMAIN sessions :
                  \E t \in Threads(sessions[s]) :
                    \E p \in 1..Len(Thread(sessions[s], t)) :
                      /\ Thread(sessions[s], t)[p] = x
                      /\ Threads(sessions'[s]) = Threads(sessions[s])
                      /\ Len(Thread(sessions'[s], t)) = Len(Thread(sessions[s], t))
                      /\ Thread(sessions'[s], t)[p] = result'.value[1]
                      /\ \A q \in 1..Len(Thread(sessions[s], t)) \ {p} :
                            Thread(sessions'[s], t)[q] = Thread(sessions[s], t)[q]
                      /\ \A u \in Threads(sessions[s]) \ {t} :
                            Thread(sessions'[s], u) = Thread(sessions[s], u)
                      /\ \A s2 \in DOMAIN sessions \ {s} :
                            sessions'[s2] = sessions[s2]]_vars

\* C6 witness: a revision took the second place of a main thread.
C6_Witness ==
    /\ result.op = "revise_thought" /\ result.ok
    /\ HasSession(current_session)
    /\ Len(MainThread(current_session)) >= 2
    /\ MainThread(current_session)[2] = result.value[1]

\* C7: after a successful revise_thought of X the id of X is on no
\* thought-id list of any session, main thread or branch, and X is still in
\* the thought table.
C7_RevisedIdOnNoList ==
    [][\A x \in ThoughtIdInputs, in \in ThoughtInputs :
          (result'.op = "revise_thought" /\ result'.ok /\ revise_thought(x, in[1], in[2]))
          => /\ x \in DOMAIN thoughts'
             /\ \A s \in DOMAIN sessions' :
                  \A t \in Threads(sessions'[s]) :
                     ~InList(Thread(sessions'[s], t), x)]_vars

\* C8: in every session the thought ids on the main thread and on all
\* branch lists number at most config.max_thoughts.
C8_ThoughtCeiling ==
    \A s \in DOMAIN sessions : Places(sessions[s]) <= sessions[s].config.max_thoughts

\* C9: check_memory_limits is false exactly when the main thread and the
\* branch lists together hold more than config.max_thoughts ids, and then
\* add_thought fails with the memory-limit error and changes no thread and
\* no thought.
C9_MemoryGate ==
    /\ [](\A s \in DOMAIN sessions :
             check_memory_limits(s)
               = ~(Places(sessions[s]) > sessions[s].config.max_thoughts))
    /\ [][( /\ result'.op = "add_thought"
            /\ HasSession(current_session)
            /\ Places(sessions[current_session])
                  > sessions[current_session].config.max_thoughts )
          => /\ result' = Err("add_thought", "Session memory limit exceeded")
             /\ thoughts' = thoughts
             /\ sessions' = sessions]_vars

\* C9 witness: add_thought was refused at the memory gate.
C9_Witness ==
    /\ result = Err("add_thought", "Session memory limit exceeded")
    /\ HasSession(current_session)
    /\ Places(sessions[current_session]) > max_thoughts

\* C10: add_thought with a branch id that is no key of the current
\* session's branch map fails and leaves the length of the main thread and
\* of every branch list of the session unchanged.
C10_UnknownBranchFails ==
    [][\A in \in ThoughtInputs, b \in BranchIdInputs :
          ( /\ result'.op = "add_thought"
            /\ HasSession(current_session)
            /\ b \notin DOMAIN Branches(current_session)
            /\ add_thought(in[1], <<>>, in[2], b) )
          => /\ ~result'.ok
             /\ Len(MainThread(current_session)') = Len(MainThread(current_session))
             /\ DOMAIN Branches(current_session)' = DOMAIN Branches(current_session)
             /\ \A c \in DOMAIN Branches(current_session) :
                   Len(Branches(current_session)[c].thoughts')
                     = Len(Branches(current_session)[c].thoughts)]_vars

\* C10 witness: add_thought was refused for a branch id the session, which
\* holds thoughts and a branch, does not know.
C10_Witness ==
    /\ result = Err("add_thought", "Branch does not exist")
    /\ HasSession(current_session)
    /\ Len(MainThread(current_session)) >= 1
    /\ DOMAIN Branches(current_session) # {}

\* C11: a merged branch stays merged, and a branch stays in the branch map
\* of its session under the same id and name for as long as the session is
\* stored; the only change of the flag is from open to merged.
C11_BranchOnlyMerges ==
    [][\A s \in DOMAIN sessions \cap DOMAIN sessions' :
          \A b \in DOMAIN Branches(s) :
             /\ b \in DOMAIN sessions'[s].branches
             /\ sessions'[s].branches[b].id = Branches(s)[b].id
             /\ sessions'[s].branches[b].name = Branches(s)[b].name
             /\ Branches(s)[b].merged => sessions'[s].branches[b].merged]_vars

\* C11 witness: a branch that was already merged has been merged once more.
C11_Witness ==
    /\ result.op = "merge_branch" /\ result.ok
    /\ HasSession(current_session)
    /\ \E b \in DOMAIN Branches(current_session) :
          /\ Branches(current_session)[b].merged
          /\ Len(Branches(current_session)[b].thoughts) = 1
          /\ Len(MainThread(current_session)) = 2
          /\ MainThread(current_session)[1] = MainThread(current_session)[2]

\* C12: no thought listed on a merged branch carries that branch's id in
\* its branch_id.
C12_MergedBranchThoughtsDetached ==
    \A s \in DOMAIN sessions :
        \A b \in DOMAIN Branches(s) :
            Branches(s)[b].merged =>
                \A i \in 1..Len(Branches(s)[b].thoughts) :
                    thoughts[Branches(s)[b].thoughts[i]].branch_id # b

C14_OverlapDistinctNumbers ==
    [][(Len(pending') < Len(pending) /\ result'.ok) =>
          \E k \in 1..Len(pending) :
             /\ add_thought_resume(k)
             /\ LET f == pending[k]
                    thread == Thread(sessions'[f.session], f.branch_id)
                IN /\ InList(thread, f.thought_id)
                   /\ \A i \in 1..Len(thread) :
                         thread[i] # f.thought_id =>
                            thoughts'[thread[i]].number
                               # thoughts'[f.thought_id].number]_vars

\* C15: with two actors that each started a session of their own, every
\* thought and every branch of a session was put there by the actor that
\* started the session.
C15_ActorsKeepToOwnSession ==
    \A s \in DOMAIN sessions :
        /\ \A t \in Threads(sessions[s]) :
              \A i \in 1..Len(Thread(sessions[s], t)) :
                 thoughts[Thread(sessions[s], t)[i]].content
                    = sessions[s].problem_statement
        /\ \A b \in DOMAIN Branches(s) :
              Branches(s)[b].name = sessions[s].problem_statement

\* C16: a step taken while one session is current changes neither what
\* get_analysis nor what get_thought_tree returns for any other stored
\* session, and the patterns_detected reported for a session that never held
\* a thought are empty.
C16_OtherSessionsUntouched ==
    /\ [](HasSession(current_session) /\ all_thoughts(sessions[current_session]) = <<>>
            => DOMAIN analysis(current_session).patterns_detected = {})
    /\ [][\A B \in DOMAIN sessions \cap DOMAIN sessions' :
             B # current_session =>
                /\ analysis(B)' = analysis(B)
                /\ thought_tree(B)' = thought_tree(B)]_vars

\* what the offered contents hold, written out: a negative indicator (not,
\* wrong) and a positive one (valid, correct)
NegativeTexts == {TextNotCorrect, TextWrong}
PositiveTexts == {TextValid, TextNotCorrect}

\* the dependencies a content contradicts, given the thought table
Contradicted(content, dependencies, table) ==
    IF content \in NegativeTexts
    THEN SelectSeq(dependencies,
                   LAMBDA d : d \in DOMAIN table /\ table[d].content \in PositiveTexts)
    ELSE <<>>

\* C17: a successful revise_thought of X stores a new thought with X's
\* number, total_estimated, dependency list and branch_id, with revision_of
\* X's id and with the contradictions of the new content against X's
\* dependencies, and leaves X as it was in the table.
C17_RevisionCopiesAndRecomputes ==
    [][\A x \in 1..MaxThoughtIds, c \in RichContents :
          (result'.op = "revise_thought" /\ result'.ok /\ revise_thought(x, c, 900))
          => LET X == thoughts[x]
                 R == thoughts'[result'.value[1]]
             IN /\ result'.value[1] \notin DOMAIN thoughts
                /\ R.content = c
                /\ R.number = X.number
                /\ R.total_estimated = X.total_estimated
                /\ R.dependencies = X.dependencies
                /\ R.branch_id = X.branch_id
                /\ R.revision_of = x
                /\ R.contradictions = Contradicted(c, X.dependencies, thoughts)
                /\ thoughts'[x] = X]_vars

\* C17 witness: a thought on a branch, with no contradictions of its own,
\* was revised into one that contradicts both its dependencies.
C17_Witness ==
    /\ result.op = "revise_thought" /\ result.ok
    /\ LET R == thoughts[result.value[1]]
           X == thoughts[R.revision_of]
       IN /\ Truthy(R.branch_id)
          /\ X.contradictions = <<>>
          /\ R.contradictions = <<2, 1>>

\* the two read-only calls
Queries == {"get_thought_tree", "get_analysis"}

\* what a query made in this state returns
TreeReturned ==
    IF Truthy(current_session) /\ HasSession(current_session)
    THEN <<thought_tree(current_session)>> ELSE <<>>
AnalysisReturned ==
    IF Truthy(current_session) /\ HasSession(current_session)
    THEN <<analysis(current_session)>> ELSE <<>>

\* C18: get_thought_tree and get_analysis never raise: every id on the main
\* thread or on a branch list of a stored session is a key of the thought
\* table, and both calls return the empty dict when no session is current or
\* the current session is not in the store.
C18_QueriesNeverRaise ==
    /\ [](\A s \in DOMAIN sessions :
             \A t \in Threads(sessions[s]) :
                \A i \in 1..Len(Thread(sessions[s], t)) :
                   Thread(sessions[s], t)[i] \in DOMAIN thoughts)
    /\ [][result'.op \in Queries =>
            /\ result'.ok
            /\ (~Truthy(current_session) \/ ~HasSession(current_session))
                  => result'.value = <<>>]_vars

\* C18 witness: a query returned the empty dict for a current session that
\* is no longer stored, while another session holding a merged thought is.
C18_Witness ==
    /\ result = Ok("get_analysis", <<>>)
    /\ Truthy(current_session) /\ ~HasSession(current_session)
    /\ \E s \in DOMAIN sessions :
          \E b \in DOMAIN Branches(s) :
             Branches(s)[b].merged /\ Len(Branches(s)[b].thoughts) >= 1

C20_ContradictionList ==
    [][(result'.op = "add_thought" /\ result'.ok) =>
          LET T == thoughts'[result'.value[1]]
          IN /\ result'.value[1] \notin DOMAIN thoughts
             /\ T.contradictions = Contradicted(T.content, T.dependencies, thoughts)
             /\ (T.content \notin NegativeTexts \/ T.dependencies = <<>>)
                   => T.contradictions = <<>>]_vars

\* C20 witness: the third thought, with a negative indicator in capitals,
\* contradicts its two dependencies, listed in dependency order.
C20_Witness ==
    /\ result = Ok("add_thought", <<3>>)
    /\ thoughts[3].content = TextWrong
    /\ thoughts[3].dependencies = <<2, 1>>
    /\ thoughts[3].contradictions = <<2, 1>>
    /\ thoughts[2].contradictions = <<1>>

\* C21: every successful add_thought, revise_thought, create_branch and
\* merge_branch advances last_updated of the session it works on.
C21_LastUpdatedAdvances ==
    [][( /\ result'.op \in {"add_thought", "revise_thought", "create_branch",
                           "merge_branch"}
         /\ result'.ok )
       => sessions'[current_session].last_updated
             > sessions[current_session].last_updated]_vars

\* C22: a call that allocates an id replaces no existing entry: add_thought
\* leaves every thought of the table, create_branch every branch of the
\* session's map and start_session every stored session as it was.
C22_AllocationNeverOverwrites ==
    [][result'.ok =>
          /\ result'.op = "add_thought" =>
                \A t \in DOMAIN thoughts :
                   t \in DOMAIN thoughts' /\ thoughts'[t] = thoughts[t]
          /\ result'.op = "create_branch" =>
                \A b \in DOMAIN Branches(current_session) :
                   /\ b \in DOMAIN sessions'[current_session].branches
                   /\ sessions'[current_session].branches[b]
                        = Branches(current_session)[b]
          /\ result'.op = "start_session" =>
                \A s \in DOMAIN sessions :
                   s \in DOMAIN sessions' /\ sessions'[s] = sessions[s]]_vars

\* C23: with no current session add_thought, create_branch and merge_branch
\* each fail with the no-active-session error and change nothing of the
\* thought table, the sessions, the pattern tally or the pointer.
C23_NoActiveSession ==
    [][( /\ current_session = None
         /\ result'.op \in {"add_thought", "create_branch", "merge_branch"} )
       => /\ result' = Err(result'.op, "No active session")
          /\ EngineState' = EngineState]_vars

\* C23 witness: merge_branch was refused for want of a current session (the
\* pointer is None only until the first start_session, so the tables are
\* empty then).
C23_Witness ==
    /\ current_session = None
    /\ result = Err("merge_branch", "No active session")

\* C24: start_session with an empty or whitespace-only problem or criteria
\* fails, stores no session and leaves the pointer; otherwise it stores one
\* new session with an empty main thread and no branches, makes it current
\* and leaves every session stored before as it was.
C24_StartSessionValidates ==
    [][\A problem \in Statements, criteria \in Statements :
          ( /\ result'.op = "start_session"
            /\ start_session(problem, criteria, <<>>, FALSE) )
          => IF problem \in {TextEmpty, TextBlank} \/ criteria \in {TextEmpty, TextBlank}
             THEN /\ ~result'.ok
                  /\ sessions' = sessions
                  /\ current_session' = current_session
             ELSE /\ result'.ok
                  /\ \E s \in DOMAIN sessions' \ DOMAIN sessions :
                        /\ DOMAIN sessions' = DOMAIN sessions \cup {s}
                        /\ sessions'[s].main_thread = <<>>
                        /\ DOMAIN sessions'[s].branches = {}
                        /\ current_session' = s
                        /\ result'.value = <<s>>
                  /\ \A t \in DOMAIN sessions : sessions'[t] = sessions[t]]_vars

\* C24 witness: start_session was refused while a session holding thoughts
\* was stored and current.
C24_Witness ==
    /\ result.op = "start_session"
    /\ ~result.ok
    /\ HasSession(current_session)
    /\ Len(MainThread(current_session)) >= 1

\* C25: a stored session leaves the store only by cleanup_session called
\* with its id, which removes that session alone; across every other call
\* it stays stored, its main thread and branch lists lose no place and its
\* branch map loses no branch.
C25_SessionsPersist ==
    [][\A s \in DOMAIN sessions :
          IF s \in DOMAIN sessions'
          THEN /\ Len(sessions'[s].main_thread) >= Len(sessions[s].main_thread)
               /\ \A b \in DOMAIN sessions[s].branches :
                     /\ b \in DOMAIN sessions'[s].branches
                     /\ Len(sessions'[s].branches[b].thoughts)
                          >= Len(sessions[s].branches[b].thoughts)
          ELSE /\ result'.op = "cleanup_session"
               /\ DOMAIN sessions' = DOMAIN sessions \ {s}]_vars

\* C25 witness: of two sessions started, one was cleaned up and the other is
\* still stored with the thoughts added to it.
C25_Witness ==
    /\ result.op = "cleanup_session"
    /\ issued.session = 2
    /\ \E s \in DOMAIN sessions :
          /\ DOMAIN sessions = {s}
          /\ Len(sessions[s].main_thread) >= 1

\* C26: every thought of the table has a confidence within [0,1] and a
\* content that is not empty; add_thought and revise_thought given a
\* confidence outside [0,1] or an empty content fail and leave the thought
\* table and every session as they were.
C26_ThoughtsValid ==
    /\ [](\A t \in DOMAIN thoughts :
             /\ 0 <= thoughts[t].confidence
             /\ thoughts[t].confidence <= 1000
             /\ Len(thoughts[t].content) > 0)
    /\ [][\A content \in Contents, confidence \in Confidences :
            ( /\ content = TextEmpty \/ confidence < 0 \/ confidence > 1000
              /\ \/ /\ result'.op = "add_thought"
                    /\ \E branch_id \in {None} \cup BranchIdInputs :
                          add_thought(content, <<>>, confidence, branch_id)
                 \/ /\ result'.op = "revise_thought"
                    /\ \E original_id \in ThoughtIdInputs :
                          revise_thought(original_id, content, confidence) )
            => /\ ~result'.ok
               /\ thoughts' = thoughts
               /\ sessions' = sessions]_vars

\* C26 witness: revise_thought of a stored thought was refused by the
\* validation of the revised thought.
C26_Witness ==
    /\ result = Err("revise_thought", "ValueError: content empty or confidence out of range")
    /\ thoughts # <<>>

\* C27: the thinking_quality that get_analysis returns is "insufficient" for
\* a main thread of fewer than 3 thoughts, "basic" for 3 to 6, "advanced"
\* for 7 or more with at least one branch and "good" for 7 or more with none.
C27_ThinkingQuality ==
    ( /\ result.op = "get_analysis"
      /\ result.ok
      /\ Len(result.value) = 1 )
    => LET length == Len(MainThread(current_session))
           branches == Cardinality(DOMAIN Branches(current_session))
       IN result.value[1].thinking_quality =
             IF length < 3 THEN "insufficient"
             ELSE IF length <= 6 THEN "basic"
             ELSE IF branches >= 1 THEN "advanced"
             ELSE "good"

\* C27 witness: the analysis of a session with 7 thoughts on its main thread
\* and a branch was returned.
C27_Witness ==
    /\ result.op = "get_analysis"
    /\ result.ok
    /\ Len(result.value) = 1
    /\ Len(MainThread(current_session)) >= 7
    /\ DOMAIN Branches(current_session) # {}
    /\ result.value[1].thinking_quality = "advanced"

\* C28: _rank_packages puts every installed package ahead of every package
\* that is not installed, whatever their relevance scores.
C28_InstalledRankedFirst ==
    [][result'.op = "_rank_packages" =>
          \A i, j \in 1..Len(result'.value) :
             ( /\ result'.value[i].installed
               /\ ~result'.value[j].installed ) => i < j]_vars

\* C29: whenever running pip fails, by raising any exception or by a
\* non-zero return code, _search_installed_packages returns the empty list
\* and raises nothing.
C29_SearchSwallowsErrors ==
    [][\A run \in PipRuns :
          ( /\ result'.op = "_search_installed_packages"
            /\ run.raises # "" \/ run.returncode # 0
            /\ SearchInstalledPackages(run) )
          => result' = Ok("_search_installed_packages", <<>>)]_vars

\* C30: start_coding_session given a problem and criteria that are not
\* blank returns the id of a session that is stored, has coding_session set
\* and holds the constraints given, and that session is current.
C30_CodingSessionStarted ==
    [][\A constraints \in ConstraintLists, package_exploration_required \in BOOLEAN,
          running_loop \in BOOLEAN :
          ( /\ result'.op = "start_coding_session"
            /\ start_coding_session(TextProblem, TextProblem, constraints, <<>>,
                                    package_exploration_required, running_loop) )
          => /\ result'.ok
             /\ Len(result'.value) = 1
             /\ result'.value[1] \in DOMAIN sessions'
             /\ sessions'[result'.value[1]].coding_session
             /\ sessions'[result'.value[1]].constraints = constraints
             /\ current_session' = result'.value[1]]_vars

\* C31: while a branch is open its thought-id list only grows at the end:
\* across every step the list before is a prefix of the list after.
C31_OpenBranchAppendOnly ==
    [][\A s \in DOMAIN sessions \cap DOMAIN sessions' :
          \A b \in DOMAIN sessions[s].branches \cap DOMAIN sessions'[s].branches :
             ~sessions[s].branches[b].merged
             => LET before == sessions[s].branches[b].thoughts
                    after == sessions'[s].branches[b].thoughts
                IN /\ Len(after) >= Len(before)
                   /\ SubSeq(after, 1, Len(before)) = before]_vars

\* C31 as amended: while a branch is open its thought-id list never gets
\* shorter and every position keeps its id, except that a revise_thought
\* puts the id of the revision at the position of the thought it revises.
C31_OpenBranchKeepsPositions ==
    [][\A s \in DOMAIN sessions \cap DOMAIN sessions' :
          \A b \in DOMAIN sessions[s].branches \cap DOMAIN sessions'[s].branches :
             ~sessions[s].branches[b].merged
             => LET before == sessions[s].branches[b].thoughts
                    after == sessions'[s].branches[b].thoughts
                IN /\ Len(after) >= Len(before)
                   /\ \A i \in 1..Len(before) :
                         \/ after[i] = before[i]
                         \/ /\ result'.op = "revise_thought"
                            /\ after[i] \notin DOMAIN thoughts
                            /\ thoughts'[after[i]].revision_of = before[i]]_vars

\* C31 witness: a thought on an open branch was revised and the revision
\* stands at its place, next to another thought of the branch.
C31_Witness ==
    /\ result.op = "revise_thought"
    /\ result.ok
    /\ \E s \in DOMAIN sessions : \E b \in DOMAIN sessions[s].branches :
          /\ ~sessions[s].branches[b].merged
          /\ Len(sessions[s].branches[b].thoughts) >= 2
          /\ \E i \in 1..Len(sessions[s].branches[b].thoughts) :
                sessions[s].branches[b].thoughts[i] = result.value[1]

\* C32: the thought a successful add_thought creates has number 1 plus the
\* length its target thread (the branch list when a branch id is given, else
\* the main thread) has right before the id is appended, and total_estimated
\* max(5, number + 2).
C32_NumberAtInsertion ==
    [][( /\ result'.op = "add_thought"
         /\ result'.ok )
       => LET thought == thoughts'[result'.value[1]]
          IN /\ thought.total_estimated
                  = (IF thought.number + 2 > 5 THEN thought.number + 2 ELSE 5)
             /\ \A s \in DOMAIN sessions \cap DOMAIN sessions' :
                   /\ sessions'[s].main_thread # sessions[s].main_thread
                         => thought.number = Len(sessions[s].main_thread) + 1
                   /\ \A b \in DOMAIN sessions[s].branches :
                         sessions'[s].branches[b].thoughts # sessions[s].branches[b].thoughts
                         => thought.number = Len(sessions[s].branches[b].thoughts) + 1]_vars

\* the names a pattern result can carry
PatternNames ==
    {KeywordPatterns[i].name : i \in 1..Len(KeywordPatterns)}
    \cup {CodingPatterns[i].name : i \in 1..Len(CodingPatterns)}
    \cup {"detailed_analysis"}

\* the count the tally holds for a pattern
Count(tallied, p) == IF p \in DOMAIN tallied THEN tallied[p] ELSE 0

\* C33: a successful add_thought raises the count of every pattern by the
\* number of the new thought's results for it with confidence 0.6 or more,
\* and no other count; the fallback result at 0.5 is never counted.
C33_TallyCountsQualifying ==
    /\ [](DOMAIN patterns \subseteq PatternNames \ {"detailed_analysis"})
    /\ [][( /\ result'.op = "add_thought"
            /\ result'.ok )
          => LET results == thoughts'[result'.value[1]].pattern_results
             IN \A p \in PatternNames :
                   Count(patterns', p) - Count(patterns, p)
                     = Cardinality({i \in 1..Len(results) :
                                      /\ results[i].pattern = p
                                      /\ results[i].confidence >= 600})]_vars

\* C33 witness: a thought with a result at 0.8 and the fallback result at
\* 0.5 was added, and the tally holds a count.
C33_Witness ==
    /\ result.op = "add_thought"
    /\ result.ok
    /\ \E i, j \in 1..Len(thoughts[result.value[1]].pattern_results) :
          /\ thoughts[result.value[1]].pattern_results[i].confidence = 800
          /\ thoughts[result.value[1]].pattern_results[j].confidence = 500
    /\ DOMAIN patterns # {}

\* what a detector contributes: its results, or nothing when it raised
Contribution(out) == IF out.raised THEN <<>> ELSE out.results

\* C34: get_pattern_results returns the results of the detectors that did
\* not raise, one detector after the other in registration order; a detector
\* that raises contributes nothing, the others still contribute, and the
\* add_thought that called get_pattern_results succeeds.
C34_RaisingDetectorIsolated ==
    /\ [][\A outs \in [1..3 -> DetectorOutcomes] :
            ( /\ result'.op = "get_pattern_results"
              /\ GetPatternResults(outs) )
            => /\ result'.ok
               /\ result'.value = Contribution(outs[1]) \o Contribution(outs[2])
                                    \o Contribution(outs[3])]_vars
    /\ [][\A content \in PatternContents :
            ( /\ result'.op = "add_thought"
              /\ HasSession(current_session)
              /\ ~memory_limit_exceeded(current_session)
              /\ add_thought(content, <<>>, 900, None) )
            => /\ result'.ok
               /\ thoughts'[result'.value[1]].pattern_results
                    = Contribution(KeywordPatternDetector(content))
                      \o Contribution(FallbackPatternDetector(content))
                      \o Contribution(CodingPatternDetector(content))]_vars

\* C34 witness: a thought whose content makes the coding detector raise was
\* added and carries the results of the two other detectors.
C34_Witness ==
    /\ result.op = "add_thought"
    /\ result.ok
    /\ thoughts[result.value[1]].content = TextFour
    /\ CodingPatternDetector(TextFour).raised
    /\ Len(thoughts[result.value[1]].pattern_results) = 2

\* C35: for every coding pattern with at least one of its keywords in the
\* content, the results stored on the thought hold a result for that pattern
\* with a confidence of 0.7 to 1.0, however many of its keywords match.
C35_CodingPatternReported ==
    [][( /\ result'.op = "add_thought"
         /\ result'.ok )
       => LET thought == thoughts'[result'.value[1]]
          IN \A k \in 1..Len(CodingPatterns) :
                ContainsAny(CodingPatterns[k].keywords, lower(thought.content))
                => \E i \in 1..Len(thought.pattern_results) :
                      /\ thought.pattern_results[i].pattern = CodingPatterns[k].name
                      /\ thought.pattern_results[i].confidence >= 700
                      /\ thought.pattern_results[i].confidence <= 1000]_vars


\* C36: in every reachable state the current-session pointer is either unset
\* or the id of a session present in the session store, also after
\* cleanup_session has been called on the current session.
C36_CurrentSessionStored ==
    current_session = None \/ HasSession(current_session)


\* C37: in every reachable state every thought on the main thread of a session
\* has branch_id unset, and every thought on the list of an open branch B has
\* branch_id equal to B's id.
C37_BranchIdMatchesThread ==
    \A s \in DOMAIN sessions :
       /\ \A i \in 1..Len(sessions[s].main_thread) :
             thoughts[sessions[s].main_thread[i]].branch_id = None
       /\ \A b \in DOMAIN sessions[s].branches :
             ~sessions[s].branches[b].merged
             => \A i \in 1..Len(sessions[s].branches[b].thoughts) :
                   thoughts[sessions[s].branches[b].thoughts[i]].branch_id = b

\* C37 witness: a branch with thoughts has been merged into a main thread
\* while another session holds an open branch with a thought of its own.
C37_Witness ==
    /\ result.op = "merge_branch"
    /\ result.ok
    /\ Len(result.value) >= 1
    /\ InList(sessions[current_session].main_thread, result.value[1])
    /\ \E s \in DOMAIN sessions : \E b \in DOMAIN sessions[s].branches :
          /\ ~sessions[s].branches[b].merged
          /\ Len(sessions[s].branches[b].thoughts) >= 1


\* C38: every dependency id stored on a thought is the id of a thought that
\* was already in the thought table when the thought was created, and every
\* id on the thought's contradiction list is one of its dependency ids.
C38_DependenciesAreEarlierThoughts ==
    [][\A t \in DOMAIN thoughts' \ DOMAIN thoughts :
          /\ \A i \in 1..Len(thoughts'[t].dependencies) :
                thoughts'[t].dependencies[i] \in DOMAIN thoughts
          /\ \A i \in 1..Len(thoughts'[t].contradictions) :
                InList(thoughts'[t].dependencies, thoughts'[t].contradictions[i])]_vars


\* C39: the task scheduled by start_coding_session adds the "MANDATORY:
\* Explore existing packages" thought to the new session's main thread as its
\* first thought (position 1, number 1), whatever add_thought or
\* start_session calls were made between the scheduling and the task's run.
C39_DiscoveryThoughtFirst ==
    [][result'.op = "_add_package_discovery_thought"
       => /\ result'.ok
          /\ LET task == Head(pending)
                 thought_id == result'.value[1]
             IN /\ sessions'[task.session].main_thread[1] = thought_id
                /\ thoughts'[thought_id].number = 1
                /\ thoughts'[thought_id].content = MandatoryContent(task.problem)]_vars


\* C40: total_thoughts returned by get_analysis equals the number of distinct
\* thought ids referenced by the current session's main thread and branch
\* lists, in every reachable state, also after a branch has been merged.
C40_TotalCountsDistinctIds ==
    ( /\ result.op = "get_analysis"
      /\ result.ok
      /\ result.value # <<>> )
    => LET session == sessions[current_session]
           referenced ==
               {session.main_thread[i] : i \in 1..Len(session.main_thread)}
               \cup UNION {{session.branches[b].thoughts[i] :
                               i \in 1..Len(session.branches[b].thoughts)} :
                           b \in DOMAIN session.branches}
       IN result.value[1].total_thoughts = Cardinality(referenced)

============================================================================
